---- MODULE Spec2Model ----
(***************************************************************************)
(* Model of AnimatedCharacter (game_animator.py): clip registration from   *)
(* separate sheets, from a master sheet (sequentially or by range), the    *)
(* playback cursor driven by play_animation/update, facing and direction   *)
(* mode, and the sprite attributes (image, rect) derived from them.        *)
(***************************************************************************)
EXTENDS Integers, Sequences, FiniteSets, TLC

VARIABLES
    x, y,                     \* self.x, self.y
    scale,                    \* self.scale, in units of 1/ScaleDen
    direction_mode,           \* self.direction_mode
    animations,               \* self.animations: name -> clip record
    current_animation,        \* self.current_animation (None or a name)
    current_frame,            \* self.current_frame
    animation_timer,          \* self.animation_timer
    animation_speed,          \* self.animation_speed
    facing_right,             \* self.facing_right
    current_frame_width,      \* self.current_frame_width
    current_frame_height,     \* self.current_frame_height
    master_sprite_sheet,      \* self.master_sprite_sheet (None or an image)
    master_frame_width,       \* self.master_frame_width
    master_frame_height,      \* self.master_frame_height
    master_columns,           \* self.master_columns
    next_frame_index,         \* self.next_frame_index
    image,                    \* self.image
    rect,                     \* self.rect
    raised,                   \* TRUE once a call has raised an uncaught exception
    run,                      \* updates since the last play_animation reset, -1 if interrupted
    reserved,                 \* frames handed out by add_animation_from_master since the last load
    calls                     \* number of configuration calls made so far

vars == <<x, y, scale, direction_mode, animations, current_animation,
          current_frame, animation_timer, animation_speed, facing_right,
          current_frame_width, current_frame_height, master_sprite_sheet,
          master_frame_width, master_frame_height, master_columns,
          next_frame_index, image, rect, raised, run, reserved, calls>>

\* ---------------------------------------------------------------- bounds
MaxFrames == 2      \* frame counts given to add_animation / add_animation_from_master
MaxSpeed == 2       \* speeds given to the registration calls
MaxCalls == 2       \* configuration calls explored per behaviour
SheetWidth == 2     \* pixel width of the loadable image
SheetHeight == 2    \* pixel height of the loadable image
MaxColumns == 2     \* column counts given to load_master_sprite_sheet
ScaleDen == 2       \* scale factors are multiples of 1/ScaleDen

\* ------------------------------------------------------- program constants
AUTO_FLIP == "auto_flip"
SEPARATE_DIRECTIONS == "separate_directions"
NO_FLIP == "no_flip"
None == "None"
DefaultSpeed == 10
DefaultFrameSize == 64
DefaultColumns == 8

\* ------------------------------------------------------------ input sets
Modes == {AUTO_FLIP, SEPARATE_DIRECTIONS, NO_FLIP}
ModeInputs == Modes \cup {"mirror"}
Names == {"walk", "walk_left", "walk_right"}
BaseNames == {"walk"}
LoadableFiles == {"hero.png"}
Files == LoadableFiles \cup {"missing.png"}
CellSizes == {<<2, 1>>, <<1, 2>>}      \* cells of the master sheet
SeparateCells == {<<2, 2>>}            \* cells of the separate sheets
Scales == {3}
FrameCounts == 1..MaxFrames
Speeds == 1..MaxSpeed
Columns == 1..MaxColumns
CellCapacity(c) == (SheetWidth \div c[1]) * (SheetHeight \div c[2])
MaxTotalFrames == CHOOSE m \in {CellCapacity(c) : c \in CellSizes} :
                      \A c \in CellSizes : CellCapacity(c) <= m
FrameNumbers == 0..(MaxTotalFrames + 1)
Deltas == {<<1, 0>>, <<-1, 0>>, <<0, 1>>}
Positions == {<<0, 0>>}
StartPositions == {<<0, 0>>, <<5, -3>>} \* x, y given to the constructor by a script
StageCells == {<<2, 2>>, <<1, 2>>}     \* cells of the sheets a script registers
FrameSizes == {2}                      \* frame_size given to create_hero_master_sprite
MaxClipFrames == IF MaxFrames > MaxTotalFrames THEN MaxFrames ELSE MaxTotalFrames
MaxRun == MaxSpeed * MaxClipFrames + 2

\* --------------------------------------------------------------- helpers
\* pygame.Surface.get_width / get_height of a loaded image
get_width(img) == SheetWidth
get_height(img) == SheetHeight

\* int(v * self.scale)
Scaled(v, sc) == (v * sc) \div ScaleDen

\* pygame.Surface((w, h), SRCALPHA): an empty surface
Surface(w, h) == [src |-> None, fx |-> 0, fy |-> 0, fw |-> w, fh |-> h,
                  flipped |-> FALSE, w |-> w, h |-> h]

\* pygame.Rect and its center
Rect(rx, ry, rw, rh) == [x |-> rx, y |-> ry, w |-> rw, h |-> rh]
CenterX(r) == r.x + (r.w \div 2)
CenterY(r) == r.y + (r.h \div 2)

\* the fields of the object that registration and play_animation may write,
\* with ok standing for the value the call returns
Self == [animations |-> animations, current_animation |-> current_animation,
         current_frame |-> current_frame, animation_timer |-> animation_timer,
         animation_speed |-> animation_speed,
         current_frame_width |-> current_frame_width,
         current_frame_height |-> current_frame_height,
         next_frame_index |-> next_frame_index,
         image |-> image, rect |-> rect, x |-> x, y |-> y, ok |-> TRUE]

\* the sheet parameters load_master_sprite_sheet writes
Master == [master_sprite_sheet |-> master_sprite_sheet,
           master_frame_width |-> master_frame_width,
           master_frame_height |-> master_frame_height,
           master_columns |-> master_columns,
           next_frame_index |-> next_frame_index, ok |-> TRUE]

\* update_sprite_attributes keeping the top-left corner instead of the centre
update_sprite_attributes_KeepsCorner(S) ==
    LET scaled_width == Scaled(S.current_frame_width, scale)
        scaled_height == Scaled(S.current_frame_height, scale)
    IN [S EXCEPT !.image = Surface(scaled_width, scaled_height),
                 !.rect = Rect(S.rect.x, S.rect.y, scaled_width, scaled_height),
                 !.x = S.rect.x, !.y = S.rect.y]

\* _update_sprite_attributes: new empty image of the scaled cell size, rect
\* of that size re-centred on the old centre, x and y synchronised with it
update_sprite_attributes(S) ==
    LET scaled_width == Scaled(S.current_frame_width, scale)
        scaled_height == Scaled(S.current_frame_height, scale)
        nx == CenterX(S.rect) - (scaled_width \div 2)
        ny == CenterY(S.rect) - (scaled_height \div 2)
    IN [S EXCEPT !.image = Surface(scaled_width, scaled_height),
                 !.rect = Rect(nx, ny, scaled_width, scaled_height),
                 !.x = nx, !.y = ny]

\* self.animations[name] = clip
Put(anims, name, clip) ==
    [n \in DOMAIN anims \cup {name} |-> IF n = name THEN clip ELSE anims[n]]

\* MakeCurrentIfFirst making every registered clip the current one
MakeCurrentIfFirst_Always(S, name, speed, fw, fh) ==
    update_sprite_attributes(
        [S EXCEPT !.current_animation = name, !.animation_speed = speed,
                  !.current_frame_width = fw, !.current_frame_height = fh])

\* MakeCurrentIfFirst leaving the character without an active clip
MakeCurrentIfFirst_Never(S, name, speed, fw, fh) == S

\* "if this is the first animation, make it current"
MakeCurrentIfFirst(S, name, speed, fw, fh) ==
    IF S.current_animation = None
    THEN update_sprite_attributes(
             [S EXCEPT !.current_animation = name, !.animation_speed = speed,
                       !.current_frame_width = fw, !.current_frame_height = fh])
    ELSE S

\* GridPosition with row and column exchanged
GridPosition_Transposed(index, columns, fw, fh) ==
    LET row == index % columns
        col == index \div columns
    IN <<col * fw, row * fh>>

\* pixel position of a 0-based frame index on the master sheet
GridPosition(index, columns, fw, fh) ==
    LET row == index \div columns
        col == index % columns
    IN <<col * fw, row * fh>>

\* the loop "for i in range(count): frame_positions.append(...)"
RECURSIVE FramePositions(_, _, _, _, _)
FramePositions(first, count, columns, fw, fh) ==
    IF count <= 0 THEN <<>>
    ELSE Append(FramePositions(first, count - 1, columns, fw, fh),
                GridPosition(first + (count - 1), columns, fw, fh))

\* pygame.image.load succeeds
Loads(sprite_file) == sprite_file \in LoadableFiles

\* LoadMasterSpriteSheet leaving the sequential cursor where it was
LoadMasterSpriteSheet_KeepsCursor(sprite_file, frame_width, frame_height, columns) ==
    IF Loads(sprite_file)
    THEN [master_sprite_sheet |-> sprite_file, master_frame_width |-> frame_width,
          master_frame_height |-> frame_height, master_columns |-> columns,
          next_frame_index |-> next_frame_index, ok |-> TRUE]
    ELSE [Master EXCEPT !.ok = FALSE]

\* body of load_master_sprite_sheet
LoadMasterSpriteSheet(sprite_file, frame_width, frame_height, columns) ==
    IF Loads(sprite_file)
    THEN [master_sprite_sheet |-> sprite_file, master_frame_width |-> frame_width,
          master_frame_height |-> frame_height, master_columns |-> columns,
          next_frame_index |-> 0, ok |-> TRUE]
    ELSE [Master EXCEPT !.ok = FALSE]

\* body of add_animation, applied to the object fields S
AddAnimation(S, name, sprite_file, frame_width, frame_height, frames, speed, loop) ==
    IF ~Loads(sprite_file)
    THEN [S EXCEPT !.ok = FALSE]
    ELSE LET clip == [mode |-> "separate", sprite_image |-> sprite_file,
                      frame_width |-> frame_width, frame_height |-> frame_height,
                      frames |-> frames, speed |-> speed, loop |-> loop,
                      finished |-> FALSE]
             S1 == [S EXCEPT !.animations = Put(S.animations, name, clip), !.ok = TRUE]
         IN MakeCurrentIfFirst(S1, name, speed, frame_width, frame_height)

\* body of add_animation_from_master
AddAnimationFromMaster(S, name, frames, speed, loop) ==
    IF master_sprite_sheet = None
    THEN [S EXCEPT !.ok = FALSE]
    ELSE LET clip == [mode |-> "master", sprite_image |-> master_sprite_sheet,
                      frame_width |-> master_frame_width,
                      frame_height |-> master_frame_height,
                      frames |-> frames, speed |-> speed, loop |-> loop,
                      finished |-> FALSE,
                      frame_positions |->
                          FramePositions(S.next_frame_index, frames, master_columns,
                                         master_frame_width, master_frame_height)]
             S1 == [S EXCEPT !.animations = Put(S.animations, name, clip),
                             !.next_frame_index = S.next_frame_index + frames,
                             !.ok = TRUE]
         IN MakeCurrentIfFirst(S1, name, speed, master_frame_width, master_frame_height)

\* total_frames as add_animation_from_range computes it
TotalFrames ==
    (get_width(master_sprite_sheet) \div master_frame_width)
        * (get_height(master_sprite_sheet) \div master_frame_height)

\* RangeAccepted without the comparison against total_frames
RangeAccepted_NoCapacityCheck(start_frame, end_frame) ==
    /\ master_sprite_sheet # None
    /\ ~(start_frame < 1)
    /\ ~(end_frame < start_frame)

\* the checks add_animation_from_range makes before it stores anything
RangeAccepted(start_frame, end_frame) ==
    /\ master_sprite_sheet # None
    /\ ~(start_frame < 1)
    /\ ~(end_frame < start_frame)
    /\ ~(end_frame > TotalFrames)

\* body of add_animation_from_range
AddAnimationFromRange(S, name, start_frame, end_frame, speed, loop) ==
    IF ~RangeAccepted(start_frame, end_frame)
    THEN [S EXCEPT !.ok = FALSE]
    ELSE LET frames_count == end_frame - start_frame + 1
             clip == [mode |-> "range", sprite_image |-> master_sprite_sheet,
                      frame_width |-> master_frame_width,
                      frame_height |-> master_frame_height,
                      frames |-> frames_count, speed |-> speed, loop |-> loop,
                      finished |-> FALSE,
                      frame_positions |->
                          FramePositions(start_frame - 1, frames_count, master_columns,
                                         master_frame_width, master_frame_height),
                      start_frame |-> start_frame, end_frame |-> end_frame]
             S1 == [S EXCEPT !.animations = Put(S.animations, name, clip), !.ok = TRUE]
         IN MakeCurrentIfFirst(S1, name, speed, master_frame_width, master_frame_height)

\* body of add_directional_animation: two add_animation calls, left then right
AddDirectionalAnimation(S, base_name, left_sprite, right_sprite, frame_width, frame_height, frames, speed, loop) ==
    LET L == AddAnimation(S, base_name \o "_left", left_sprite,
                          frame_width, frame_height, frames, speed, loop)
        R == AddAnimation(L, base_name \o "_right", right_sprite,
                          frame_width, frame_height, frames, speed, loop)
    IN [R EXCEPT !.ok = (L.ok /\ R.ok)]

\* ResolvedName preferring the bare name to the directional one
ResolvedName_BareFirst(name) ==
    IF direction_mode = SEPARATE_DIRECTIONS
    THEN LET direction_suffix == IF facing_right THEN "_right" ELSE "_left"
             directional_name == name \o direction_suffix
         IN IF name \in DOMAIN animations THEN name
            ELSE IF directional_name \in DOMAIN animations THEN directional_name
            ELSE None
    ELSE name

\* the clip play_animation(name) looks up, None after its early return
ResolvedName(name) ==
    IF direction_mode = SEPARATE_DIRECTIONS
    THEN LET direction_suffix == IF facing_right THEN "_right" ELSE "_left"
             directional_name == name \o direction_suffix
         IN IF directional_name \in DOMAIN animations THEN directional_name
            ELSE IF name \in DOMAIN animations THEN name
            ELSE None
    ELSE name

\* Restarts ignoring the reset argument
Restarts_IgnoresReset(name, reset) ==
    /\ name \in DOMAIN animations
    /\ current_animation # name

\* "if name in self.animations: if self.current_animation != name or reset"
Restarts(name, reset) ==
    /\ name \in DOMAIN animations
    /\ (current_animation # name \/ reset)

\* PlayAnimation rewinding the cursor before it looks the clip up
PlayAnimation_RewindsFirst(name, reset) ==
    LET target == ResolvedName(name)
    IN IF Restarts(target, reset)
       THEN LET animation == animations[target]
            IN update_sprite_attributes(
                   [Self EXCEPT !.current_animation = target,
                                !.current_frame = 0,
                                !.animation_timer = 0,
                                !.animation_speed = animation.speed,
                                !.current_frame_width = animation.frame_width,
                                !.current_frame_height = animation.frame_height,
                                !.animations[target].finished = FALSE])
       ELSE [Self EXCEPT !.current_frame = 0, !.animation_timer = 0]

\* PlayAnimation restarting a clip without clearing its finished flag
PlayAnimation_KeepsFinished(name, reset) ==
    LET target == ResolvedName(name)
    IN IF Restarts(target, reset)
       THEN LET animation == animations[target]
            IN update_sprite_attributes(
                   [Self EXCEPT !.current_animation = target,
                                !.current_frame = 0,
                                !.animation_timer = 0,
                                !.animation_speed = animation.speed,
                                !.current_frame_width = animation.frame_width,
                                !.current_frame_height = animation.frame_height])
       ELSE Self

\* PlayAnimation dropping the active clip when the name is not found
PlayAnimation_ClearsOnUnknown(name, reset) ==
    LET target == ResolvedName(name)
    IN IF Restarts(target, reset)
       THEN LET animation == animations[target]
            IN update_sprite_attributes(
                   [Self EXCEPT !.current_animation = target,
                                !.current_frame = 0,
                                !.animation_timer = 0,
                                !.animation_speed = animation.speed,
                                !.current_frame_width = animation.frame_width,
                                !.current_frame_height = animation.frame_height,
                                !.animations[target].finished = FALSE])
       ELSE IF target \in DOMAIN animations THEN Self
            ELSE [Self EXCEPT !.current_animation = None]

\* body of play_animation
PlayAnimation(name, reset) ==
    LET target == ResolvedName(name)
    IN IF Restarts(target, reset)
       THEN LET animation == animations[target]
            IN update_sprite_attributes(
                   [Self EXCEPT !.current_animation = target,
                                !.current_frame = 0,
                                !.animation_timer = 0,
                                !.animation_speed = animation.speed,
                                !.current_frame_width = animation.frame_width,
                                !.current_frame_height = animation.frame_height,
                                !.animations[target].finished = FALSE])
       ELSE Self

\* Advance comparing the frame index with > instead of >=
Advance_WrapsLate(timer, frame, speed, animation) ==
    IF timer + 1 >= speed
    THEN IF frame + 1 > animation.frames
         THEN IF animation.loop
              THEN <<0, 0, animation.finished>>
              ELSE <<0, animation.frames - 1, TRUE>>
         ELSE <<0, frame + 1, animation.finished>>
    ELSE <<timer + 1, frame, animation.finished>>

\* Advance clamping a non-looping clip without marking it finished
Advance_NeverFinishes(timer, frame, speed, animation) ==
    IF timer + 1 >= speed
    THEN IF frame + 1 >= animation.frames
         THEN IF animation.loop
              THEN <<0, 0, animation.finished>>
              ELSE <<0, animation.frames - 1, animation.finished>>
         ELSE <<0, frame + 1, animation.finished>>
    ELSE <<timer + 1, frame, animation.finished>>

\* Advance marking a non-looping clip finished as soon as it shows its last frame
Advance_FinishesOnLastFrame(timer, frame, speed, animation) ==
    IF timer + 1 >= speed
    THEN IF frame + 1 >= animation.frames
         THEN IF animation.loop
              THEN <<0, 0, animation.finished>>
              ELSE <<0, animation.frames - 1, TRUE>>
         ELSE <<0, frame + 1,
                IF ~animation.loop /\ frame + 1 = animation.frames - 1
                THEN TRUE ELSE animation.finished>>
    ELSE <<timer + 1, frame, animation.finished>>

\* Advance changing frame one call late
Advance_TicksLate(timer, frame, speed, animation) ==
    IF timer + 1 > speed
    THEN IF frame + 1 >= animation.frames
         THEN IF animation.loop
              THEN <<0, 0, animation.finished>>
              ELSE <<0, animation.frames - 1, TRUE>>
         ELSE <<0, frame + 1, animation.finished>>
    ELSE <<timer + 1, frame, animation.finished>>

\* the timer and frame arithmetic of update(): <<timer, frame, finished>>
Advance(timer, frame, speed, animation) ==
    IF timer + 1 >= speed
    THEN IF frame + 1 >= animation.frames
         THEN IF animation.loop
              THEN <<0, 0, animation.finished>>
              ELSE <<0, animation.frames - 1, TRUE>>
         ELSE <<0, frame + 1, animation.finished>>
    ELSE <<timer + 1, frame, animation.finished>>

\* _update_image raises IndexError when frame_positions has no such entry
FrameLookupFails(animation, frame) ==
    /\ animation.mode \in {"master", "range"}
    /\ frame >= Len(animation.frame_positions)

\* "direction_mode == AUTO_FLIP and not facing_right"
Flips == direction_mode = AUTO_FLIP /\ ~facing_right

\* the surface _update_image builds for a frame of a clip
FrameImage(animation, frame) ==
    LET pos == IF animation.mode \in {"master", "range"}
               THEN animation.frame_positions[frame + 1]
               ELSE <<frame * animation.frame_width, 0>>
        scaledW == IF scale # ScaleDen THEN Scaled(animation.frame_width, scale)
                   ELSE animation.frame_width
        scaledH == IF scale # ScaleDen THEN Scaled(animation.frame_height, scale)
                   ELSE animation.frame_height
    IN [src |-> animation.sprite_image, fx |-> pos[1], fy |-> pos[2],
        fw |-> animation.frame_width, fh |-> animation.frame_height,
        flipped |-> Flips, w |-> scaledW, h |-> scaledH]

\* IsAnimationFinished answering for any registered clip
IsAnimationFinished_AnyClip ==
    IF current_animation = None THEN TRUE
    ELSE \E n \in DOMAIN animations : animations[n].finished

\* body of is_animation_finished
IsAnimationFinished ==
    IF current_animation = None THEN TRUE
    ELSE animations[current_animation].finished

\* FacingAfterMove following dx in every direction mode
FacingAfterMove_IgnoresMode(dx) ==
    IF dx > 0 THEN TRUE ELSE IF dx < 0 THEN FALSE ELSE facing_right

\* the facing move() leaves behind for a horizontal delta dx
FacingAfterMove(dx) ==
    IF direction_mode # NO_FLIP
    THEN IF dx > 0 THEN TRUE ELSE IF dx < 0 THEN FALSE ELSE facing_right
    ELSE facing_right

\* ----------------------------------------------------------------- Init
\* __init__(x=0, y=0, scale, direction_mode)
Init ==
    /\ x = 0
    /\ y = 0
    /\ scale \in Scales
    /\ direction_mode \in Modes
    /\ animations = [n \in {} |-> None]
    /\ current_animation = None
    /\ current_frame = 0
    /\ animation_timer = 0
    /\ animation_speed = DefaultSpeed
    /\ facing_right = TRUE
    /\ current_frame_width = DefaultFrameSize
    /\ current_frame_height = DefaultFrameSize
    /\ master_sprite_sheet = None
    /\ master_frame_width = DefaultFrameSize
    /\ master_frame_height = DefaultFrameSize
    /\ master_columns = DefaultColumns
    /\ next_frame_index = 0
    /\ image = Surface(DefaultFrameSize, DefaultFrameSize)
    /\ rect = Rect(0, 0, DefaultFrameSize, DefaultFrameSize)
    /\ raised = FALSE
    /\ run = -1
    /\ reserved = 0
    /\ calls = 0

\* the first two statements of create_hero_master_sprite: the constructor with
\* its default direction mode, then load_master_sprite_sheet with square cells
InitHero ==
    /\ x = 0
    /\ y = 0
    /\ scale \in Scales
    /\ direction_mode = AUTO_FLIP
    /\ animations = [n \in {} |-> None]
    /\ current_animation = None
    /\ current_frame = 0
    /\ animation_timer = 0
    /\ animation_speed = DefaultSpeed
    /\ facing_right = TRUE
    /\ current_frame_width = DefaultFrameSize
    /\ current_frame_height = DefaultFrameSize
    /\ \E f \in Files, size \in FrameSizes, k \in Columns :
           /\ master_sprite_sheet = IF Loads(f) THEN f ELSE None
           /\ master_frame_width = IF Loads(f) THEN size ELSE DefaultFrameSize
           /\ master_frame_height = IF Loads(f) THEN size ELSE DefaultFrameSize
           /\ master_columns = IF Loads(f) THEN k ELSE DefaultColumns
    /\ next_frame_index = 0
    /\ image = Surface(DefaultFrameSize, DefaultFrameSize)
    /\ rect = Rect(0, 0, DefaultFrameSize, DefaultFrameSize)
    /\ raised = FALSE
    /\ run = -1
    /\ reserved = 0
    /\ calls = 0

\* -------------------------------------------------------------- actions
Ready == ~raised
CanConfigure == Ready /\ calls < MaxCalls

\* write the fields of S back to the object
Commit(S) ==
    /\ animations' = S.animations
    /\ current_animation' = S.current_animation
    /\ current_frame' = S.current_frame
    /\ animation_timer' = S.animation_timer
    /\ animation_speed' = S.animation_speed
    /\ current_frame_width' = S.current_frame_width
    /\ current_frame_height' = S.current_frame_height
    /\ next_frame_index' = S.next_frame_index
    /\ image' = S.image
    /\ rect' = S.rect
    /\ x' = S.x
    /\ y' = S.y

\* a registration call whose body leaves the fields S
Registered(S) ==
    /\ Commit(S)
    /\ calls' = IF S.animations = animations THEN calls ELSE calls + 1
    /\ run' = -1
    /\ UNCHANGED <<scale, direction_mode, facing_right, master_sprite_sheet,
                   master_frame_width, master_frame_height, master_columns, raised>>

set_direction_mode(mode) ==
    /\ Ready
    /\ direction_mode' = IF mode \in Modes THEN mode ELSE direction_mode
    /\ run' = -1
    /\ UNCHANGED <<x, y, scale, animations, current_animation, current_frame,
                   animation_timer, animation_speed, facing_right,
                   current_frame_width, current_frame_height, master_sprite_sheet,
                   master_frame_width, master_frame_height, master_columns,
                   next_frame_index, image, rect, raised, reserved, calls>>

set_facing_direction(right) ==
    /\ Ready
    /\ facing_right' = right
    /\ run' = -1
    /\ UNCHANGED <<x, y, scale, direction_mode, animations, current_animation,
                   current_frame, animation_timer, animation_speed,
                   current_frame_width, current_frame_height, master_sprite_sheet,
                   master_frame_width, master_frame_height, master_columns,
                   next_frame_index, image, rect, raised, reserved, calls>>

load_master_sprite_sheet(sprite_file, frame_width, frame_height, columns) ==
    /\ CanConfigure
    /\ LET M == LoadMasterSpriteSheet(sprite_file, frame_width, frame_height, columns)
       IN /\ master_sprite_sheet' = M.master_sprite_sheet
          /\ master_frame_width' = M.master_frame_width
          /\ master_frame_height' = M.master_frame_height
          /\ master_columns' = M.master_columns
          /\ next_frame_index' = M.next_frame_index
          /\ calls' = IF M.ok THEN calls + 1 ELSE calls
          /\ reserved' = IF M.ok THEN 0 ELSE reserved
    /\ run' = -1
    /\ UNCHANGED <<x, y, scale, direction_mode, animations, current_animation,
                   current_frame, animation_timer, animation_speed, facing_right,
                   current_frame_width, current_frame_height, image, rect, raised>>

add_animation_from_master(name, frames, speed, loop) ==
    /\ CanConfigure
    /\ Registered(AddAnimationFromMaster(Self, name, frames, speed, loop))
    /\ reserved' = IF AddAnimationFromMaster(Self, name, frames, speed, loop).ok
                   THEN reserved + frames ELSE reserved

add_animation(name, sprite_file, frame_width, frame_height, frames, speed, loop) ==
    /\ CanConfigure
    /\ Registered(AddAnimation(Self, name, sprite_file, frame_width, frame_height,
                               frames, speed, loop))
    /\ UNCHANGED reserved

add_directional_animation(base_name, left_sprite, right_sprite, frame_width, frame_height, frames, speed, loop) ==
    /\ CanConfigure
    /\ Registered(AddDirectionalAnimation(Self, base_name, left_sprite, right_sprite,
                                          frame_width, frame_height, frames, speed, loop))
    /\ UNCHANGED reserved

add_animation_from_range(name, start_frame, end_frame, speed, loop) ==
    /\ CanConfigure
    /\ Registered(AddAnimationFromRange(Self, name, start_frame, end_frame, speed, loop))
    /\ UNCHANGED reserved

play_animation(name, reset) ==
    /\ Ready
    /\ Commit(PlayAnimation(name, reset))
    /\ run' = IF Restarts(ResolvedName(name), reset) THEN 0 ELSE -1
    /\ UNCHANGED <<scale, direction_mode, facing_right, master_sprite_sheet,
                   master_frame_width, master_frame_height, master_columns,
                   raised, reserved, calls>>

\* update() counting ticks although no clip is active
update_TicksWhenIdle ==
    /\ Ready
    /\ IF current_animation = None
       THEN /\ animation_timer' = (animation_timer + 1) % DefaultSpeed
            /\ UNCHANGED <<animations, current_frame, image, raised>>
            /\ run' = -1
       ELSE LET animation == animations[current_animation]
                adv == Advance(animation_timer, current_frame, animation_speed, animation)
                after == [animation EXCEPT !.finished = adv[3]]
            IN /\ animation_timer' = adv[1]
               /\ current_frame' = adv[2]
               /\ animations' = [animations EXCEPT ![current_animation] = after]
               /\ IF FrameLookupFails(after, adv[2])
                  THEN /\ raised' = TRUE
                       /\ run' = -1
                       /\ UNCHANGED image
                  ELSE /\ image' = FrameImage(after, adv[2])
                       /\ run' = IF run < 0 THEN -1
                                 ELSE IF run < MaxRun THEN run + 1 ELSE MaxRun
                       /\ UNCHANGED raised
    /\ UNCHANGED <<x, y, scale, direction_mode, current_animation, animation_speed,
                   facing_right, current_frame_width, current_frame_height,
                   master_sprite_sheet, master_frame_width, master_frame_height,
                   master_columns, next_frame_index, rect, reserved, calls>>

update ==
    /\ Ready
    /\ IF current_animation = None
       THEN /\ UNCHANGED <<animations, current_frame, animation_timer, image, raised>>
            /\ run' = -1
       ELSE LET animation == animations[current_animation]
                adv == Advance(animation_timer, current_frame, animation_speed, animation)
                after == [animation EXCEPT !.finished = adv[3]]
            IN /\ animation_timer' = adv[1]
               /\ current_frame' = adv[2]
               /\ animations' = [animations EXCEPT ![current_animation] = after]
               /\ IF FrameLookupFails(after, adv[2])
                  THEN /\ raised' = TRUE
                       /\ run' = -1
                       /\ UNCHANGED image
                  ELSE /\ image' = FrameImage(after, adv[2])
                       /\ run' = IF run < 0 THEN -1
                                 ELSE IF run < MaxRun THEN run + 1 ELSE MaxRun
                       /\ UNCHANGED raised
    /\ UNCHANGED <<x, y, scale, direction_mode, current_animation, animation_speed,
                   facing_right, current_frame_width, current_frame_height,
                   master_sprite_sheet, master_frame_width, master_frame_height,
                   master_columns, next_frame_index, rect, reserved, calls>>

move(dx, dy) ==
    /\ CanConfigure
    /\ x' = x + dx
    /\ y' = y + dy
    /\ rect' = [rect EXCEPT !.x = x + dx, !.y = y + dy]
    /\ facing_right' = FacingAfterMove(dx)
    /\ run' = -1
    /\ calls' = calls + 1
    /\ UNCHANGED <<scale, direction_mode, animations, current_animation, current_frame,
                   animation_timer, animation_speed, current_frame_width,
                   current_frame_height, master_sprite_sheet, master_frame_width,
                   master_frame_height, master_columns, next_frame_index, image, raised,
                   reserved>>

set_position(px, py) ==
    /\ CanConfigure
    /\ x' = px
    /\ y' = py
    /\ rect' = [rect EXCEPT !.x = px, !.y = py]
    /\ run' = -1
    /\ calls' = IF <<px, py>> = <<x, y>> THEN calls ELSE calls + 1
    /\ UNCHANGED <<scale, direction_mode, animations, current_animation, current_frame,
                   animation_timer, animation_speed, facing_right, current_frame_width,
                   current_frame_height, master_sprite_sheet, master_frame_width,
                   master_frame_height, master_columns, next_frame_index, image, raised,
                   reserved>>

\* ----------------------------------------------------------- behaviours
Next ==
    \/ \E mode \in ModeInputs : set_direction_mode(mode)
    \/ \E right \in BOOLEAN : set_facing_direction(right)
    \/ \E f \in Files, c \in CellSizes, k \in Columns :
           load_master_sprite_sheet(f, c[1], c[2], k)
    \/ \E n \in Names, fr \in FrameCounts, sp \in Speeds, lp \in BOOLEAN :
           add_animation_from_master(n, fr, sp, lp)
    \/ \E n \in Names, f \in Files, c \in SeparateCells, fr \in FrameCounts,
          sp \in Speeds, lp \in BOOLEAN :
           add_animation(n, f, c[1], c[2], fr, sp, lp)
    \/ \E b \in BaseNames, lf \in Files, rf \in Files, c \in SeparateCells,
          fr \in FrameCounts, sp \in Speeds, lp \in BOOLEAN :
           add_directional_animation(b, lf, rf, c[1], c[2], fr, sp, lp)
    \/ \E n \in Names, s \in FrameNumbers, e \in FrameNumbers,
          sp \in Speeds, lp \in BOOLEAN :
           add_animation_from_range(n, s, e, sp, lp)
    \/ \E n \in Names, reset \in BOOLEAN : play_animation(n, reset)
    \/ update
    \/ \E d \in Deltas : move(d[1], d[2])
    \/ \E p \in Positions : set_position(p[1], p[2])

Spec == Init /\ [][Next]_vars

\* what a caller of create_hero_master_sprite goes on to do with the character:
\* turning, registrations, reloads and playback
NextHero ==
    \/ \E right \in BOOLEAN : set_facing_direction(right)
    \/ \E f \in Files, c \in CellSizes, k \in Columns :
           load_master_sprite_sheet(f, c[1], c[2], k)
    \/ \E n \in Names, fr \in FrameCounts, sp \in Speeds, lp \in BOOLEAN :
           add_animation_from_master(n, fr, sp, lp)
    \/ \E n \in Names, f \in Files, c \in SeparateCells, fr \in FrameCounts,
          sp \in Speeds, lp \in BOOLEAN :
           add_animation(n, f, c[1], c[2], fr, sp, lp)
    \/ \E b \in BaseNames, lf \in Files, rf \in Files, c \in SeparateCells,
          fr \in FrameCounts, sp \in Speeds, lp \in BOOLEAN :
           add_directional_animation(b, lf, rf, c[1], c[2], fr, sp, lp)
    \/ \E n \in Names, s \in FrameNumbers, e \in FrameNumbers,
          sp \in Speeds, lp \in BOOLEAN :
           add_animation_from_range(n, s, e, sp, lp)
    \/ \E n \in Names, reset \in BOOLEAN : play_animation(n, reset)
    \/ update

\* the test scripts: the constructor at a position of the screen, with its
\* default direction mode
InitAt ==
    /\ \E p \in StartPositions :
           /\ x = p[1]
           /\ y = p[2]
           /\ rect = Rect(p[1], p[2], DefaultFrameSize, DefaultFrameSize)
    /\ scale \in Scales
    /\ direction_mode = AUTO_FLIP
    /\ animations = [n \in {} |-> None]
    /\ current_animation = None
    /\ current_frame = 0
    /\ animation_timer = 0
    /\ animation_speed = DefaultSpeed
    /\ facing_right = TRUE
    /\ current_frame_width = DefaultFrameSize
    /\ current_frame_height = DefaultFrameSize
    /\ master_sprite_sheet = None
    /\ master_frame_width = DefaultFrameSize
    /\ master_frame_height = DefaultFrameSize
    /\ master_columns = DefaultColumns
    /\ next_frame_index = 0
    /\ image = Surface(DefaultFrameSize, DefaultFrameSize)
    /\ raised = FALSE
    /\ run = -1
    /\ reserved = 0
    /\ calls = 0

\* a clip started by play_animation is playing and has not run to its end
Playing == current_animation # None /\ run >= 0 /\ ~animations[current_animation].finished

\* the test scripts: clips are registered and started, then the main loop
\* calls update() once per tick until the clip has run to its end
NextLoop ==
    \/ \E n \in Names, f \in Files, c \in StageCells, fr \in FrameCounts,
          sp \in Speeds, lp \in BOOLEAN :
           ~Playing /\ add_animation(n, f, c[1], c[2], fr, sp, lp)
    \/ \E n \in Names, reset \in BOOLEAN : ~Playing /\ play_animation(n, reset)
    \/ update

\* the main loop never stops calling update()
SpecLoop == InitAt /\ [][NextLoop]_vars /\ WF_vars(update)

\* a character made the way create_hero_master_sprite makes it
SpecHero == InitHero /\ [][NextHero]_vars

TypeOK ==
    /\ current_animation \in DOMAIN animations \cup {None}
    /\ DOMAIN animations \subseteq Names
    /\ run \in -1..MaxRun
    /\ calls \in 0..MaxCalls

\* ---------------------------------------------------------------- claims
Active == current_animation # None
ActiveClip == animations[current_animation]
Tracked == Active /\ run >= 0
DirectionalName(name) == name \o (IF facing_right THEN "_right" ELSE "_left")
\* the object fields with the return value left out
Fields(S) == [S EXCEPT !.ok = TRUE]

\* C1: whenever a clip is active, the current frame index lies in
\* 0 .. (frame count of the active clip) - 1.
C1_FrameIndexInBounds ==
    Active => (0 <= current_frame /\ current_frame < ActiveClip.frames)

\* C2: whenever a clip is active, the tick accumulator lies in
\* 0 .. (registered speed of the active clip) - 1.
C2_TickBelowSpeed ==
    Active => (0 <= animation_timer /\ animation_timer < ActiveClip.speed)

\* C3: a looping clip restarted by play_animation and then updated n times in
\* a row is not finished for any n up to speed * frames, and after exactly
\* speed * frames updates the cursor is back at frame 0, tick 0.
C3_LoopReturnsToStart ==
    (Tracked /\ ActiveClip.loop) =>
        LET period == ActiveClip.speed * ActiveClip.frames
        IN /\ (run <= period => ~ActiveClip.finished)
           /\ (run = period => (current_frame = 0 /\ animation_timer = 0))

C3_Witness ==
    /\ Tracked /\ ActiveClip.loop
    /\ ActiveClip.frames = 2 /\ ActiveClip.speed = 2
    /\ run = 4

\* C4 as claimed: a non-looping clip restarted by play_animation and then
\* updated n > speed * (frames - 1) times in a row is at its last frame and
\* finished.
C4_FinishedOnLastFrame ==
    (Tracked /\ ~ActiveClip.loop /\ run > ActiveClip.speed * (ActiveClip.frames - 1)) =>
        (current_frame = ActiveClip.frames - 1 /\ ActiveClip.finished)

\* C4 as amended: after n > speed * (frames - 1) updates in a row the cursor is
\* at the last frame and stays there, and after n >= speed * frames updates the
\* clip is finished.
C4_FinishedAfterLastFrame ==
    (Tracked /\ ~ActiveClip.loop) =>
        /\ (run > ActiveClip.speed * (ActiveClip.frames - 1)
               => current_frame = ActiveClip.frames - 1)
        /\ (run >= ActiveClip.speed * ActiveClip.frames => ActiveClip.finished)

C4_Witness ==
    /\ Tracked /\ ~ActiveClip.loop
    /\ ActiveClip.frames = 2 /\ ActiveClip.speed = 2
    /\ run = 5 /\ ActiveClip.finished

\* C5: in every reachable state, an add_animation_from_range(name, s, e) that
\* succeeds stores a clip of exactly e - s + 1 positions, the i-th being the
\* cell of 0-based index s - 1 + i: column (index mod columns), row (index div
\* columns), scaled by the cell size.
C5_RangePositions ==
    \A n \in Names, s \in FrameNumbers, e \in FrameNumbers, sp \in Speeds, lp \in BOOLEAN :
        LET R == AddAnimationFromRange(Self, n, s, e, sp, lp)
        IN R.ok =>
            /\ R.animations[n].frames = e - s + 1
            /\ Len(R.animations[n].frame_positions) = e - s + 1
            /\ \A i \in 0..(e - s) :
                   R.animations[n].frame_positions[i + 1] =
                       <<((s - 1 + i) % master_columns) * master_frame_width,
                         ((s - 1 + i) \div master_columns) * master_frame_height>>

C5_Witness ==
    \E n \in DOMAIN animations :
        /\ animations[n].mode = "range"
        /\ animations[n].start_frame = 1 /\ animations[n].end_frame = 2
        /\ animations[n].frame_positions[2] = <<0, master_frame_height>>

\* C6: in every reachable state, add_animation_from_range with start < 1, or
\* end < start, or end > totalFrames reports failure and leaves the clip map
\* as it was.
C6_InvalidRangeRejected ==
    \A n \in Names, s \in FrameNumbers, e \in FrameNumbers, sp \in Speeds, lp \in BOOLEAN :
        (s < 1 \/ e < s \/ (master_sprite_sheet # None /\ e > TotalFrames)) =>
            LET R == AddAnimationFromRange(Self, n, s, e, sp, lp)
            IN ~R.ok /\ R.animations = animations

C6_Witness ==
    /\ master_sprite_sheet # None
    /\ TotalFrames = 2
    /\ "walk" \in DOMAIN animations
    /\ animations["walk"].mode = "range"
    /\ calls = MaxCalls

\* C7: in every reachable state, every registration call that reports failure
\* leaves the clip map, the playback cursor, the sheet parameters and the
\* sequential frame cursor as they were.
C7_FailedRegistrationChangesNothing ==
    /\ \A n \in Names, f \in Files, c \in SeparateCells, fr \in FrameCounts,
          sp \in Speeds, lp \in BOOLEAN :
           LET R == AddAnimation(Self, n, f, c[1], c[2], fr, sp, lp)
           IN ~R.ok => Fields(R) = Self
    /\ \A b \in BaseNames, lf \in Files, rf \in Files, c \in SeparateCells,
          fr \in FrameCounts, sp \in Speeds, lp \in BOOLEAN :
           LET R == AddDirectionalAnimation(Self, b, lf, rf, c[1], c[2], fr, sp, lp)
           IN ~R.ok => Fields(R) = Self
    /\ \A n \in Names, fr \in FrameCounts, sp \in Speeds, lp \in BOOLEAN :
           LET R == AddAnimationFromMaster(Self, n, fr, sp, lp)
           IN ~R.ok => Fields(R) = Self
    /\ \A n \in Names, s \in FrameNumbers, e \in FrameNumbers,
          sp \in Speeds, lp \in BOOLEAN :
           LET R == AddAnimationFromRange(Self, n, s, e, sp, lp)
           IN ~R.ok => Fields(R) = Self
    /\ \A f \in Files, c \in CellSizes, k \in Columns :
           LET M == LoadMasterSpriteSheet(f, c[1], c[2], k)
           IN ~M.ok => Fields(M) = Master

\* C8: in every reachable state, play_animation(name) under
\* SEPARATE_DIRECTIONS makes name + "_right" / "_left" (by facing) active if it
\* is registered, else name if it is registered, else changes nothing; under
\* the other modes it makes name itself active if registered, else changes
\* nothing.
C8_DirectionResolution ==
    \A n \in Names, reset \in BOOLEAN :
        LET R == PlayAnimation(n, reset)
        IN IF direction_mode = SEPARATE_DIRECTIONS /\ DirectionalName(n) \in DOMAIN animations
           THEN R.current_animation = DirectionalName(n)
           ELSE IF n \in DOMAIN animations
                THEN R.current_animation = n
                ELSE R = Self

C8_Witness ==
    /\ direction_mode = SEPARATE_DIRECTIONS
    /\ facing_right
    /\ {"walk", "walk_right"} \subseteq DOMAIN animations
    /\ current_animation = "walk_right"
    /\ run = 0

\* C9: in every reachable state, play_animation(name) for a name that resolves
\* to no registered clip leaves the active clip, frame index, tick accumulator,
\* every finished flag and the bounding box unchanged.
C9_UnknownClipChangesNothing ==
    \A n \in Names, reset \in BOOLEAN :
        (/\ n \notin DOMAIN animations
         /\ (direction_mode = SEPARATE_DIRECTIONS
                => DirectionalName(n) \notin DOMAIN animations)) =>
            LET R == PlayAnimation(n, reset)
            IN /\ R.current_animation = current_animation
               /\ R.current_frame = current_frame
               /\ R.animation_timer = animation_timer
               /\ R.animations = animations
               /\ R.rect = rect

C9_Witness ==
    /\ Active
    /\ current_frame = 1
    /\ animation_timer = 1
    /\ "walk" \notin DOMAIN animations
    /\ direction_mode = SEPARATE_DIRECTIONS
    /\ run = -1

\* C10: in every reachable state, play_animation(name, reset) whose name
\* resolves to a registered clip C leaves C active at frame 0, tick 0 and not
\* finished if reset is true or C was not the active clip, and leaves frame
\* index, tick and C.finished as they were otherwise.
C10_RestartOrKeep ==
    \A n \in Names, reset \in BOOLEAN :
        LET C == IF direction_mode = SEPARATE_DIRECTIONS
                    /\ DirectionalName(n) \in DOMAIN animations
                 THEN DirectionalName(n) ELSE n
            R == PlayAnimation(n, reset)
        IN C \in DOMAIN animations =>
            IF reset \/ C # current_animation
            THEN /\ R.current_animation = C
                 /\ R.current_frame = 0
                 /\ R.animation_timer = 0
                 /\ ~R.animations[C].finished
            ELSE /\ R.current_frame = current_frame
                 /\ R.animation_timer = animation_timer
                 /\ R.animations[C].finished = animations[C].finished

C10_Witness ==
    /\ Active
    /\ run = 0
    /\ \E n \in DOMAIN animations : n # current_animation /\ animations[n].finished

\* C11: move(dx, dy) in a mode other than NO_FLIP leaves the character facing
\* right when dx > 0, facing left when dx < 0 and facing as before when
\* dx = 0; in NO_FLIP mode it leaves the facing as before for every dx.
C11_MoveSetsFacing ==
    [][\A d \in Deltas :
          move(d[1], d[2]) =>
              IF direction_mode = NO_FLIP
              THEN facing_right' = facing_right
              ELSE /\ (d[1] > 0 => facing_right')
                   /\ (d[1] < 0 => ~facing_right')
                   /\ (d[1] = 0 => facing_right' = facing_right)]_vars

C11_Witness ==
    /\ direction_mode # NO_FLIP
    /\ ~facing_right
    /\ x = -1 /\ y = 0
    /\ DOMAIN animations = {}
    /\ calls = 1

\* C12 as claimed: a character goes from no active clip to an active clip only
\* by a play_animation call.
C12_IdleUntilPlay ==
    [][(~Active /\ Active') => \E n \in Names, reset \in BOOLEAN : play_animation(n, reset)]_vars

\* C12 as amended: a character has no active clip exactly as long as its clip
\* map is empty, and its cursor rests at frame 0, tick 0 all that time; the
\* registration that stores the first clip makes it the active one.
C12_IdleUntilFirstClip ==
    /\ Active <=> DOMAIN animations # {}
    /\ ~Active => (current_frame = 0 /\ animation_timer = 0)

C12_Witness ==
    /\ Active
    /\ calls = 1
    /\ current_frame = 0 /\ animation_timer = 0
    /\ run = -1

\* C13: the active clip is always the name of a stored clip, and no step takes
\* a character that has an active clip to a state without one.
C13_ActiveStaysActive ==
    [][/\ Active => current_animation \in DOMAIN animations
       /\ Active => (Active' /\ current_animation' \in DOMAIN animations')]_vars

C13_Witness ==
    /\ Active
    /\ Cardinality(DOMAIN animations) = 2
    /\ run >= 1

\* C14: is_animation_finished() is true when no clip is active and is the
\* finished flag of the active clip otherwise.
C14_FinishedQuery ==
    IsAnimationFinished = (IF Active THEN ActiveClip.finished ELSE TRUE)

C14_Witness ==
    /\ Active
    /\ ~ActiveClip.finished
    /\ current_frame > 0
    /\ \E n \in DOMAIN animations : n # current_animation /\ animations[n].finished

\* C15: the sequential cursor equals the number of frames handed out by
\* add_animation_from_master since the last successful load, whatever other
\* registration, play_animation or update() steps came between; with a sheet
\* loaded, add_animation_from_master of N frames always succeeds, stores the
\* grid positions of the 0-based indices cursor .. cursor + N - 1 and moves
\* the cursor by N, whether or not those indices fit on the sheet.
C15_SequentialCursor ==
    /\ next_frame_index = reserved
    /\ master_sprite_sheet # None =>
           \A n \in Names, fr \in FrameCounts, sp \in Speeds, lp \in BOOLEAN :
               LET R == AddAnimationFromMaster(Self, n, fr, sp, lp)
                   P == R.animations[n].frame_positions
               IN /\ R.ok
                  /\ R.next_frame_index = reserved + fr
                  /\ Len(P) = fr
                  /\ \A i \in 1..fr :
                         LET index == reserved + (i - 1)
                         IN P[i] = <<(index % master_columns) * master_frame_width,
                                     (index \div master_columns) * master_frame_height>>

C15_Witness ==
    /\ master_sprite_sheet # None
    /\ Cardinality({n \in DOMAIN animations : animations[n].mode = "master"}) = 2
    /\ reserved = 3
    /\ reserved > TotalFrames

\* C16: every frame of a clip that add_animation_from_range accepts has a
\* position whose row and column, counted with the column count given to
\* load_master_sprite_sheet, give back its 0-based index, and whose cell lies
\* inside the sheet.
C16_RangeFramesInsideSheet ==
    \A s \in FrameNumbers, e \in FrameNumbers :
        RangeAccepted(s, e) =>
            LET R == AddAnimationFromRange(Self, "walk", s, e, 1, TRUE)
                P == R.animations["walk"].frame_positions
            IN \A i \in 1..Len(P) :
                   LET index0 == (s - 1) + (i - 1)
                       col == P[i][1] \div master_frame_width
                       row == P[i][2] \div master_frame_height
                   IN /\ row * master_columns + col = index0
                      /\ P[i][1] + master_frame_width <= get_width(master_sprite_sheet)
                      /\ P[i][2] + master_frame_height <= get_height(master_sprite_sheet)

\* C17: an update() step of a character without an active clip changes neither
\* the cursor, nor the clip map, nor the image, nor the position, rect or
\* facing.
C17_IdleUpdateIsNoOp ==
    [][(~Active /\ update) =>
          UNCHANGED <<current_frame, animation_timer, animations, current_animation,
                      image, x, y, rect, facing_right>>]_vars

C17_Witness ==
    /\ ~Active
    /\ master_sprite_sheet # None
    /\ run = -1

\* C18 as claimed: a looping clip restarted by play_animation and then updated
\* n times in a row is at frame (n div speed) mod frames with tick
\* n mod speed; the frame is 0 for n < speed and 1 for n = speed.
C18_CursorAfterUpdates ==
    (Tracked /\ ActiveClip.loop /\ run < MaxRun) =>
        /\ current_frame = (run \div ActiveClip.speed) % ActiveClip.frames
        /\ animation_timer = run % ActiveClip.speed
        /\ (run < ActiveClip.speed => current_frame = 0)
        /\ (run = ActiveClip.speed => current_frame = 1)

\* C18 as amended: the same cursor formula; the frame is 0 for n < speed, and
\* for n = speed it is 1 when the clip has at least two frames and 0 when it
\* has one.
C18_CursorAfterUpdatesOfClip ==
    (Tracked /\ ActiveClip.loop /\ run < MaxRun) =>
        /\ current_frame = (run \div ActiveClip.speed) % ActiveClip.frames
        /\ animation_timer = run % ActiveClip.speed
        /\ (run < ActiveClip.speed => current_frame = 0)
        /\ (run = ActiveClip.speed =>
               current_frame = (IF ActiveClip.frames >= 2 THEN 1 ELSE 0))

C18_Witness ==
    /\ Tracked /\ ActiveClip.loop
    /\ ActiveClip.frames = 2 /\ ActiveClip.speed = 2
    /\ run = 3
    /\ current_frame = 1 /\ animation_timer = 1

\* C19 as claimed: after every update() step on a character with an active
\* clip, the cached image is flipped exactly when the direction mode is
\* AUTO_FLIP and the character does not face right.
C19_FlipAfterEveryUpdate ==
    [][(Active /\ update) => (image'.flipped <=> Flips)]_vars

\* C20: whenever a clip is active, the cached image is cut from the active
\* clip's sheet at the rectangle of the current frame: (frame * cell width, 0)
\* for a separate clip, the stored grid position for a master or range clip.
C20_ImageShowsCurrentFrame ==
    Active =>
        /\ image.src = ActiveClip.sprite_image
        /\ image.fw = ActiveClip.frame_width
        /\ image.fh = ActiveClip.frame_height
        /\ IF ActiveClip.mode \in {"master", "range"}
           THEN /\ current_frame < Len(ActiveClip.frame_positions)
                /\ <<image.fx, image.fy>> = ActiveClip.frame_positions[current_frame + 1]
           ELSE <<image.fx, image.fy>> = <<current_frame * ActiveClip.frame_width, 0>>

\* C21: a play_animation call that resets the cursor onto a clip with cell
\* (w, h) leaves a rect of size (int(w * scale), int(h * scale)) whose centre
\* is the centre of the rect before the call, and x, y at its top-left corner.
C21_PlayRecentresRect ==
    \A n \in Names, reset \in BOOLEAN :
        Restarts(ResolvedName(n), reset) =>
            LET R == PlayAnimation(n, reset)
                clip == animations[ResolvedName(n)]
            IN /\ R.rect.w = (clip.frame_width * scale) \div ScaleDen
               /\ R.rect.h = (clip.frame_height * scale) \div ScaleDen
               /\ R.rect.x + (R.rect.w \div 2) = rect.x + (rect.w \div 2)
               /\ R.rect.y + (R.rect.h \div 2) = rect.y + (rect.h \div 2)
               /\ R.x = R.rect.x
               /\ R.y = R.rect.y

C21_Witness ==
    /\ Active /\ run = 0
    /\ rect = Rect(37, 28, 1, 3)
    /\ x = 37 /\ y = 28
    /\ \E n \in DOMAIN animations : animations[n].frame_width = 2

\* C22: whenever a clip is active, animation_speed is the registered speed of
\* the active clip and the cached cell size is the active clip's cell size.
C22_CachedSpeedAndCell ==
    Active =>
        /\ animation_speed = ActiveClip.speed
        /\ current_frame_width = ActiveClip.frame_width
        /\ current_frame_height = ActiveClip.frame_height

\* C23: a finished active clip is non-looping and shows its last frame, and
\* no looping clip is ever finished.
C23_FinishedMeansLastFrame ==
    /\ (Active /\ ActiveClip.finished) =>
           (~ActiveClip.loop /\ current_frame = ActiveClip.frames - 1)
    /\ \A n \in DOMAIN animations : animations[n].loop => ~animations[n].finished

C23_Witness ==
    /\ Active
    /\ ActiveClip.finished
    /\ ActiveClip.frames = 2
    /\ current_frame = 1
    /\ run = -1

\* C24: a non-looping clip started by play_animation and then only updated is
\* not finished after fewer than speed * frames update() calls, is finished
\* after speed * frames of them, and so eventually becomes finished.
C24_FinishesAtLastTick ==
    /\ []((Tracked /\ ~ActiveClip.loop) =>
             (ActiveClip.finished <=> run >= ActiveClip.speed * ActiveClip.frames))
    /\ (Tracked /\ ~ActiveClip.loop) ~> (Tracked /\ ActiveClip.finished)

C24_Witness ==
    /\ Tracked /\ ~ActiveClip.loop
    /\ ActiveClip.speed = 2 /\ ActiveClip.frames = 2
    /\ run = 4
    /\ ActiveClip.finished

\* C25: a registration call made while a clip is active, accepted or
\* rejected, leaves the active clip name, the frame index and the tick
\* accumulator as they were.
C25_RegistrationKeepsCursor ==
    Active =>
        LET Kept(R) == /\ R.current_animation = current_animation
                       /\ R.current_frame = current_frame
                       /\ R.animation_timer = animation_timer
        IN /\ \A n \in Names, f \in Files, c \in SeparateCells, fr \in FrameCounts,
                 sp \in Speeds, lp \in BOOLEAN :
                  Kept(AddAnimation(Self, n, f, c[1], c[2], fr, sp, lp))
           /\ \A n \in Names, fr \in FrameCounts, sp \in Speeds, lp \in BOOLEAN :
                  Kept(AddAnimationFromMaster(Self, n, fr, sp, lp))
           /\ \A n \in Names, s \in FrameNumbers, e \in FrameNumbers,
                 sp \in Speeds, lp \in BOOLEAN :
                  Kept(AddAnimationFromRange(Self, n, s, e, sp, lp))
           /\ \A b \in BaseNames, lf \in Files, rf \in Files, c \in SeparateCells,
                 fr \in FrameCounts, sp \in Speeds, lp \in BOOLEAN :
                  Kept(AddDirectionalAnimation(Self, b, lf, rf, c[1], c[2], fr, sp, lp))

C25_Witness ==
    /\ Active
    /\ calls = 2
    /\ Cardinality(DOMAIN animations) = 2
    /\ current_frame = 1 /\ animation_timer = 1
    /\ run = -1
====
